---- MODULE Spec2Model ----
(***************************************************************************)
(* Credential store and OAuth routes of the Classroom add-on samples.      *)
(*                                                                         *)
(* Three deployments share the User table and the same route names:       *)
(*   "03r"  flask/03-query-parameters/webapp/routes.py                     *)
(*   "03m"  flask/03-query-parameters/main.py                              *)
(*   "05"   flask/05-activity-attachments/webapp/credential_handler.py     *)
(*          behind flask/04-content-attachments/webapp/                    *)
(*          attachment_discovery_routes.py                                 *)
(* Init picks the deployment; every action is one whole request handler.   *)
(***************************************************************************)
EXTENDS Naturals, FiniteSets, Sequences, TLC

VARIABLES sample, db, store, session, response, inflight

\* State of the attachment samples (02, 04, 06, 07): the iframe ids kept in the
\* session, the Attachment and Submission tables, what Classroom holds, the
\* outbound calls of the last request, and
\* SET_GRADE_WITH_LOGGED_IN_USER_CREDENTIALS.
VARIABLES iframe, attachments, submissions, classroom, calls, flag

addonVars == <<iframe, attachments, submissions, classroom, calls, flag>>

vars == <<sample, db, store, session, response, inflight, addonVars>>

----------------------------------------------------------------------------
(* Values *)

\* Python None, and the empty string.
None == "None"
Empty == ""

\* Number of distinct non-empty refresh tokens the token endpoint hands out.
MaxTokens == 2

Samples == {"03r", "03m", "05"}
Sessions == {"s1"}
Users == {"u1", "u2"}
Names == {"n1", "n2"}

TokenName(i) == IF i = 1 THEN "r1" ELSE IF i = 2 THEN "r2" ELSE "r3"
RefreshTokens == {TokenName(i) : i \in 1..MaxTokens}
\* What the token endpoint may put in "refresh_token": a token, nothing, or "".
TokenReplies == RefreshTokens \cup {None, Empty}
AccessToken == "at"

EmailOf(u) == IF u = "u1" THEN "e1" ELSE "e2"
PictureOf(n) == IF n = "n1" THEN "p1" ELSE "p2"

\* Answers of userinfo().get().execute(): the profile of the signed-in account.
UserInfos ==
  {[id |-> u, name |-> n, email |-> EmailOf(u), picture |-> PictureOf(n)] :
      u \in Users, n \in Names}
\* user_info=None
NoUserInfo == [id |-> None, name |-> None, email |-> None, picture |-> None]

\* login_hint is "the user's email address OR their Google ID number".
Hints == Users \cup {"e1"}
Domains == {"d1"}

\* flask.session["credentials"]; present = FALSE is the missing key.
\* (session["hd"] and the iframe ids are only passed on and are left out.)
NoCredentials == [present |-> FALSE, token |-> None, refresh_token |-> None]
Creds(tok, rt) == [present |-> TRUE, token |-> tok, refresh_token |-> rt]

EmptySession ==
  [login_hint |-> None, state |-> None, credentials |-> NoCredentials,
   username |-> None]

\* The iframe query parameters a session has stored so far.
NoIds == [courseId |-> None, attachmentId |-> None, submissionId |-> None]

\* What Classroom holds: the assignments and add-on attachments created.
NoClassroom == [courseWork |-> {}, addOnAttachments |-> {}]

----------------------------------------------------------------------------
(* The User table *)

User(info, rt) ==
  [id |-> info.id, display_name |-> info.name, email |-> info.email,
   portrait_url |-> info.picture, refresh_token |-> rt]

\* Variant: a look-up that takes the login_hint for an id or an e-mail address.
query_get_by_hint(rows, id) == {r \in rows : r.id = id \/ r.email = id}

\* User.query.get(id): the rows with that primary key (none or one).
query_get(rows, id) == {r \in rows : r.id = id}

Row(rows, id) == CHOOSE r \in query_get(rows, id) : TRUE

\* Variant: a table declared without its key and unique constraints.
Conflicts_unconstrained(others, row) == FALSE

\* primary_key=True on id, unique=True on email: row may not join others.
Conflicts(others, row) ==
  \E r \in others : r.id = row.id \/ (row.email # None /\ r.email = row.email)

\* db.session.add(row); db.session.commit()
db_insert(rows, row) ==
  IF Conflicts(rows, row)
    THEN [rows |-> rows, error |-> TRUE]
    ELSE [rows |-> rows \cup {row}, error |-> FALSE]

\* commit() of a loaded row: UPDATE user SET <changed columns> WHERE id = loaded.id
db_update(rows, loaded, changed) ==
  IF changed = loaded THEN [rows |-> rows, error |-> FALSE]
  ELSE IF query_get(rows, loaded.id) = {} THEN [rows |-> rows, error |-> TRUE]
  ELSE
    LET cur == Row(rows, loaded.id)
        new == [f \in DOMAIN cur |->
                  IF changed[f] # loaded[f] THEN changed[f] ELSE cur[f]]
    IN IF Conflicts(rows \ {cur}, new)
         THEN [rows |-> rows, error |-> TRUE]
         ELSE [rows |-> (rows \ {cur}) \cup {new}, error |-> FALSE]

----------------------------------------------------------------------------
(* Sample 03: save_user_credentials *)

\* Variant: an update that refreshes the profile but never the refresh token.
updated_user_keeps_token(existing, credentials, user_info) ==
  IF user_info # NoUserInfo
    THEN [existing EXCEPT !.id = user_info.id,
                          !.display_name = user_info.name,
                          !.email = user_info.email,
                          !.portrait_url = user_info.picture]
    ELSE existing

\* The row found under the session's login_hint, rewritten from user_info and
\* credentials (credentials.present = FALSE is credentials=None).
updated_user(existing, credentials, user_info) ==
  LET a == IF user_info # NoUserInfo
             THEN [existing EXCEPT !.id = user_info.id,
                                   !.display_name = user_info.name,
                                   !.email = user_info.email,
                                   !.portrait_url = user_info.picture]
             ELSE existing
  IN IF credentials.present /\ credentials.refresh_token # None
       THEN [a EXCEPT !.refresh_token = credentials.refresh_token]
       ELSE a

\* Variant: updates a row that is found, never adds one.
save_user_credentials_update_only(rows, login_hint, credentials, user_info) ==
  IF query_get(rows, login_hint) # {}
    THEN LET existing_user == Row(rows, login_hint)
         IN db_update(rows, existing_user,
                      updated_user(existing_user, credentials, user_info))
    ELSE [rows |-> rows, error |-> FALSE]

\* Variant: adds a row when either argument is given ("or" for "and").
save_user_credentials_either(rows, login_hint, credentials, user_info) ==
  IF query_get(rows, login_hint) # {}
    THEN LET existing_user == Row(rows, login_hint)
         IN db_update(rows, existing_user,
                      updated_user(existing_user, credentials, user_info))
  ELSE IF credentials.present \/ user_info # NoUserInfo
    THEN db_insert(rows, User(user_info, credentials.refresh_token))
  ELSE [rows |-> rows, error |-> FALSE]

save_user_credentials(rows, login_hint, credentials, user_info) ==
  IF query_get(rows, login_hint) # {}
    THEN LET existing_user == Row(rows, login_hint)
         IN db_update(rows, existing_user,
                      updated_user(existing_user, credentials, user_info))
  ELSE IF credentials.present /\ user_info # NoUserInfo
    THEN db_insert(rows, User(user_info, credentials.refresh_token))
  ELSE [rows |-> rows, error |-> FALSE]

----------------------------------------------------------------------------
(* Outcome of one request: the session and table it leaves, the page it     *)
(* renders ("500" for an unhandled exception).                              *)

AUTHORIZATION == "authorization.html"
DISCOVERY == "addon-discovery.html"
API_RESULT == "show-api-query-result.html"
CLOSE_ME == "close-me.html"
SIGNED_OUT == "signed-out.html"
REDIRECT == "redirect"
ERROR == "500"

Out(sess, rows, dbs, page) ==
  [session |-> sess, rows |-> rows, db |-> dbs, page |-> page]

\* The sqlite file: "absent", "empty" (file without tables) or "created".
\* Connecting creates the file; only db.create_all() creates the table.
Touch(dbs) == IF dbs = "absent" THEN "empty" ELSE dbs

\* Variant: the stored refresh token fills only a session that has none.
load_stored_keeps_session_token(sess, row, with_hint) ==
  [sess EXCEPT !.credentials =
                 Creds(sess.credentials.token,
                       IF sess.credentials.present
                         THEN sess.credentials.refresh_token
                         ELSE row.refresh_token),
               !.username = row.display_name,
               !.login_hint = IF with_hint THEN row.id ELSE @]

\* Stored credentials copied into the session (03 routes.py also stores the id).
load_stored(sess, row, with_hint) ==
  [sess EXCEPT !.credentials = Creds(sess.credentials.token, row.refresh_token),
               !.username = row.display_name,
               !.login_hint = IF with_hint THEN row.id ELSE @]

\* Variant: a test that also wants an access token.
needs_authorization_requires_access_token(sess) ==
  \/ ~sess.credentials.present
  \/ sess.credentials.refresh_token = None
  \/ sess.credentials.token = None

\* The final test of the discovery route.
needs_authorization(sess) ==
  ~sess.credentials.present \/ sess.credentials.refresh_token = None

classroom_addon_03r(sess, rows, dbs, q_hint) ==
  LET s1 == IF q_hint # None THEN [sess EXCEPT !.login_hint = q_hint] ELSE sess
      login_hint == s1.login_hint
  IN IF login_hint = None THEN Out(s1, rows, dbs, AUTHORIZATION)
     ELSE IF dbs # "created" THEN Out(s1, rows, Touch(dbs), ERROR)
     ELSE
       LET s2 == IF query_get(rows, login_hint) # {}
                   THEN load_stored(s1, Row(rows, login_hint), TRUE)
                   ELSE s1
       IN Out(s2, rows, dbs,
              IF needs_authorization(s2) THEN AUTHORIZATION ELSE DISCOVERY)

\* main.py: creates the tables when the file is missing.
classroom_addon_03m(sess, rows, dbs, q_hint, q_hd) ==
  LET dbs1 == IF dbs = "absent" THEN "created" ELSE dbs
      s1 == IF q_hint = None /\ q_hd = None THEN sess
            ELSE IF q_hd # None THEN sess
            ELSE [sess EXCEPT !.login_hint = q_hint]
      login_hint == IF q_hint = None /\ q_hd = None THEN sess.login_hint
                    ELSE q_hint
  IN IF q_hd # None THEN Out(s1, rows, dbs1, AUTHORIZATION)
     ELSE IF dbs1 # "created" THEN Out(s1, rows, dbs1, ERROR)
     ELSE
       LET s2 == IF query_get(rows, login_hint) # {}
                   THEN load_stored(s1, Row(rows, login_hint), FALSE)
                   ELSE s1
       IN Out(s2, rows, dbs1,
              IF needs_authorization(s2) THEN AUTHORIZATION ELSE DISCOVERY)

\* The API request can succeed only with a token to present or to refresh from.
can_call_api(credentials) ==
  credentials.token # None \/ credentials.refresh_token \in RefreshTokens

test_api_request_03(sess, rows, dbs, is_username, api_ok, name) ==
  IF ~sess.credentials.present THEN Out(sess, rows, dbs, AUTHORIZATION)
  ELSE IF is_username /\ ~api_ok THEN Out(sess, rows, dbs, ERROR)
  ELSE
    LET credentials == IF is_username
                         THEN Creds(AccessToken, sess.credentials.refresh_token)
                         ELSE sess.credentials
        s1 == [sess EXCEPT !.username = IF is_username THEN name ELSE @,
                           !.credentials = credentials]
        saved == save_user_credentials(rows, s1.login_hint, credentials,
                                       NoUserInfo)
    IN IF dbs # "created" THEN Out(s1, rows, Touch(dbs), ERROR)
       ELSE IF saved.error THEN Out(s1, rows, dbs, ERROR)
       ELSE Out(s1, saved.rows, dbs, API_RESULT)

authorize(sess, rows, dbs) ==
  Out([sess EXCEPT !.state = "st"], rows, dbs, REDIRECT)

\* step: "fetch_token" or "userinfo" names the call that raises, "ok" none.
callback_03(sess, rows, dbs, step, refresh_token, user_info) ==
  IF sess.state = None \/ step = "fetch_token" THEN Out(sess, rows, dbs, ERROR)
  ELSE
    LET credentials == Creds(AccessToken, refresh_token)
        s1 == [sess EXCEPT !.credentials = credentials]
        s2 == [s1 EXCEPT !.username = user_info.name]
        saved == save_user_credentials(rows, s2.login_hint, credentials,
                                       user_info)
    IN IF step = "userinfo" THEN Out(s1, rows, dbs, ERROR)
       ELSE IF dbs # "created" THEN Out(s2, rows, Touch(dbs), ERROR)
       ELSE IF saved.error THEN Out(s2, rows, dbs, ERROR)
       ELSE Out(s2, saved.rows, dbs, CLOSE_ME)

\* del session["credentials"]; del session["username"] (KeyError when missing)
clear_credentials_in_session(sess) ==
  IF sess.credentials.present
    THEN [session |-> [sess EXCEPT !.credentials = NoCredentials,
                                   !.username = None],
          raised |-> sess.username = None]
    ELSE [session |-> sess, raised |-> FALSE]

revoke(sess, rows, dbs, status_code) ==
  IF ~sess.credentials.present THEN Out(sess, rows, dbs, DISCOVERY)
  ELSE
    LET cleared == clear_credentials_in_session(sess)
    IN IF cleared.raised THEN Out(cleared.session, rows, dbs, ERROR)
       ELSE Out(cleared.session, rows, dbs,
                IF status_code = 200 THEN AUTHORIZATION ELSE DISCOVERY)

\* Variant: /clear that also deletes the signed-in user's row.
clear_credentials_deletes_row(sess, rows, dbs) ==
  LET cleared == clear_credentials_in_session(sess)
  IN Out(cleared.session, rows \ query_get(rows, sess.login_hint), dbs,
         IF cleared.raised THEN ERROR ELSE SIGNED_OUT)

clear_credentials(sess, rows, dbs) ==
  LET cleared == clear_credentials_in_session(sess)
  IN Out(cleared.session, rows, dbs,
         IF cleared.raised THEN ERROR ELSE SIGNED_OUT)

----------------------------------------------------------------------------
(* Sample 05: CredentialHandler, behind the 04 discovery routes *)

\* get_credentials_from_storage(id): loads a stored row into the session.
get_credentials_from_storage(sess, rows, id) ==
  IF query_get(rows, id) # {} THEN load_stored(sess, Row(rows, id), FALSE)
                              ELSE sess

\* get_credentials(user_id): result is "credentials", "None", or "KeyError"
\* when Credentials(**flask.session["credentials"]) finds no such key.
get_credentials(sess, rows, user_id) ==
  IF user_id # None
    THEN LET s1 == get_credentials_from_storage(sess, rows, user_id)
         IN [session |-> s1,
             result |-> IF s1.credentials.present THEN "credentials"
                                                  ELSE "KeyError"]
  ELSE IF ~sess.credentials.present \/ sess.credentials.refresh_token = None
    THEN [session |-> sess, result |-> "None"]
  ELSE [session |-> sess, result |-> "credentials"]

\* Variant: adds the row without looking for an existing one.
save_credentials_to_storage_always_insert(rows, credentials, user_info) ==
  db_insert(rows, User(user_info, credentials.refresh_token))

\* The table part of save_credentials_to_storage: upsert under user_info.id.
save_credentials_to_storage(rows, credentials, user_info) ==
  IF query_get(rows, user_info.id) # {}
    THEN LET existing_user == Row(rows, user_info.id)
         IN db_update(rows, existing_user,
                      updated_user(existing_user, credentials, user_info))
    ELSE db_insert(rows, User(user_info, credentials.refresh_token))

\* Its session part: username, login_hint, and the stored row loaded back.
save_credentials_session(sess, rows, user_info) ==
  get_credentials_from_storage(
    [sess EXCEPT !.username = user_info.name, !.login_hint = user_info.id],
    rows, user_info.id)

classroom_addon_05(sess, rows, dbs, q_hint, q_hd) ==
  LET s1 == IF q_hint = None /\ q_hd = None THEN sess
            ELSE IF q_hd # None THEN sess
            ELSE [sess EXCEPT !.login_hint = q_hint]
      login_hint == IF q_hint = None /\ q_hd = None THEN sess.login_hint
                    ELSE q_hint
      got == get_credentials(s1, rows, login_hint)
  IN IF q_hd # None THEN Out(s1, rows, dbs, AUTHORIZATION)
     ELSE IF got.result = "KeyError" THEN Out(got.session, rows, dbs, ERROR)
     ELSE Out(got.session, rows, dbs,
              IF got.result = "None" THEN AUTHORIZATION ELSE DISCOVERY)

\* step: "api" or "userinfo" names the call that raises, "ok" none.
test_api_request_05(sess, rows, dbs, is_username, step, user_info) ==
  IF get_credentials(sess, rows, None).result = "None"
    THEN Out(sess, rows, dbs, AUTHORIZATION)
  ELSE IF is_username /\ step = "api" THEN Out(sess, rows, dbs, ERROR)
  ELSE
    LET credentials == IF is_username
                         THEN Creds(AccessToken, sess.credentials.refresh_token)
                         ELSE sess.credentials
        s1 == [sess EXCEPT !.username = IF is_username THEN user_info.name
                                                       ELSE @,
                           !.credentials = credentials]
        s2 == save_credentials_session(s1, rows, user_info)
        saved == save_credentials_to_storage(rows, credentials, user_info)
    IN IF step = "userinfo" THEN Out(s1, rows, dbs, ERROR)
       ELSE IF saved.error THEN Out(s2, rows, dbs, ERROR)
       ELSE Out(s2, saved.rows, dbs, API_RESULT)

\* step: "fetch_token" or "userinfo" names the call that raises, "ok" none.
discovery_callback_05(sess, rows, dbs, step, refresh_token, user_info) ==
  IF sess.state = None \/ step = "fetch_token" THEN Out(sess, rows, dbs, ERROR)
  ELSE
    LET credentials == Creds(AccessToken, refresh_token)
        s1 == [sess EXCEPT !.credentials = credentials]
        s2 == save_credentials_session(s1, rows, user_info)
        saved == save_credentials_to_storage(rows, credentials, user_info)
    IN IF step = "userinfo" THEN Out(s1, rows, dbs, ERROR)
       ELSE IF saved.error THEN Out(s2, rows, dbs, ERROR)
       ELSE Out(s2, saved.rows, dbs, CLOSE_ME)

----------------------------------------------------------------------------
(* Requests *)

\* Query strings of the discovery iframe. Classroom sends hd to a user who has
\* not authorized yet and login_hint otherwise, never both.
Queries ==
  {q \in [login_hint : Hints \cup {None}, hd : Domains \cup {None}] :
      q.login_hint = None \/ q.hd = None}

\* What the OAuth round trip of a callback yields: the call that raises
\* ("fetch_token", "userinfo", or "ok" for none), the refresh token of the
\* token reply and the profile of the account that signed in.
CallbackReplies ==
  {[step |-> "ok", refresh_token |-> rt, user_info |-> ui] :
      rt \in TokenReplies, ui \in UserInfos}
  \cup {[step |-> "userinfo", refresh_token |-> rt, user_info |-> NoUserInfo] :
          rt \in TokenReplies}
  \cup {[step |-> "fetch_token", refresh_token |-> None,
         user_info |-> NoUserInfo]}

NoResponse == [route |-> "none", page |-> "none"]

\* The response is sent and the table written. An unhandled exception keeps
\* the session cookie as the handler left it, or (debug server) as it arrived.
Handle(s, route, outcome) ==
  \E out \in {outcome} :
    /\ response' = [route |-> route, page |-> out.page]
    /\ store' = out.rows
    /\ db' = out.db
    /\ session' \in
         IF out.page = ERROR
           THEN {session, [session EXCEPT ![s] = out.session]}
           ELSE {[session EXCEPT ![s] = out.session]}
    /\ UNCHANGED <<sample, inflight, addonVars>>

ClassroomAddon03r(s) ==
  /\ sample = "03r"
  /\ \E q \in Queries :
       /\ q.hd = None
       /\ Handle(s, "discovery",
                 classroom_addon_03r(session[s], store, db, q.login_hint))

ClassroomAddon03m(s) ==
  /\ sample = "03m"
  /\ \E q \in Queries :
       Handle(s, "discovery",
              classroom_addon_03m(session[s], store, db, q.login_hint, q.hd))

ClassroomAddon05(s) ==
  /\ sample = "05"
  /\ \E q \in Queries :
       Handle(s, "discovery",
              classroom_addon_05(session[s], store, db, q.login_hint, q.hd))

TestApiRequest03(s) ==
  /\ sample \in {"03r", "03m"}
  /\ \E is_username \in BOOLEAN, api_ok \in BOOLEAN, name \in Names :
       /\ api_ok => can_call_api(session[s].credentials)
       /\ Handle(s, "test",
                 test_api_request_03(session[s], store, db, is_username,
                                     api_ok, name))

TestApiRequest05(s) ==
  /\ sample = "05"
  /\ \E is_username \in BOOLEAN, step \in {"ok", "api", "userinfo"},
        user_info \in UserInfos :
       /\ step # "api" => can_call_api(session[s].credentials)
       /\ Handle(s, "test",
                 test_api_request_05(session[s], store, db, is_username,
                                     step, user_info))

Authorize(s) ==
  /\ sample \in Samples
  /\ Handle(s, "authorize", authorize(session[s], store, db))

Callback03(s) ==
  /\ sample \in {"03r", "03m"}
  /\ \E r \in CallbackReplies :
       Handle(s, "callback",
              callback_03(session[s], store, db, r.step, r.refresh_token,
                          r.user_info))

DiscoveryCallback05(s) ==
  /\ sample = "05"
  /\ \E r \in CallbackReplies :
       Handle(s, "callback",
              discovery_callback_05(session[s], store, db, r.step,
                                    r.refresh_token, r.user_info))

Revoke(s) ==
  /\ sample \in Samples
  /\ \E status_code \in {200, 400} :
       Handle(s, "revoke", revoke(session[s], store, db, status_code))

ClearCredentials(s) ==
  /\ sample \in Samples
  /\ Handle(s, "clear", clear_credentials(session[s], store, db))

----------------------------------------------------------------------------
(* Two callbacks in flight for the same account: each one looks the row up  *)
(* (03 routes.py:355, 05 credential_handler.py:169) and commits later       *)
(* (routes.py:378, credential_handler.py:194), with its own ORM session.    *)

\* The attachment samples' state in a deployment that has none of it.
AddonUnused ==
  /\ iframe = [s \in Sessions |-> NoIds]
  /\ attachments = {}
  /\ submissions = {}
  /\ classroom = NoClassroom
  /\ calls = <<>>
  /\ flag = FALSE

Requests == {"a", "b"}
RaceUser == "u1"
NoRow == User(NoUserInfo, None)

NotStarted ==
  [pc |-> "start", refresh_token |-> None, user_info |-> NoUserInfo,
   found |-> FALSE, loaded |-> NoRow, pending |-> NoRow, error |-> FALSE]

\* order: the requests in the order their commits ran.
Idle == [req |-> [r \in Requests |-> NotStarted], order |-> <<>>]

\* Token exchange, userinfo and the lookup of the existing row. The session of
\* a 03 request carries the account's id as login_hint.
RaceLoad(r) ==
  /\ inflight.req[r].pc = "start"
  /\ \E rt \in TokenReplies, ui \in {i \in UserInfos : i.id = RaceUser} :
       LET found == query_get(store, RaceUser) # {}
           loaded == IF found THEN Row(store, RaceUser) ELSE NoRow
           pending == IF found
                        THEN updated_user(loaded, Creds(AccessToken, rt), ui)
                        ELSE User(ui, rt)
       IN inflight' = [inflight EXCEPT !.req[r] =
                         [pc |-> "loaded", refresh_token |-> rt,
                          user_info |-> ui, found |-> found,
                          loaded |-> loaded, pending |-> pending,
                          error |-> FALSE]]
  /\ UNCHANGED <<sample, db, store, session, response, addonVars>>

\* db.session.commit() of what the request prepared.
RaceCommit(r) ==
  /\ inflight.req[r].pc = "loaded"
  /\ LET q == inflight.req[r]
         done == IF q.found THEN db_update(store, q.loaded, q.pending)
                            ELSE db_insert(store, q.pending)
     IN /\ store' = done.rows
        /\ inflight' = [inflight EXCEPT !.req[r].pc = "done",
                                        !.req[r].error = done.error,
                                        !.order = Append(@, r)]
  /\ UNCHANGED <<sample, db, session, response, addonVars>>

InitRace ==
  /\ sample \in {"03r", "05"}
  /\ db = "created"
  /\ store \in {{}} \cup {{User(ui, rt)} :
                             ui \in {i \in UserInfos : i.id = RaceUser},
                             rt \in TokenReplies}
  /\ session = [s \in Sessions |-> EmptySession]
  /\ response = NoResponse
  /\ inflight = Idle
  /\ AddonUnused

NextRace == \E r \in Requests : RaceLoad(r) \/ RaceCommit(r)

SpecRace == InitRace /\ [][NextRace]_vars

----------------------------------------------------------------------------
(* Specification: requests served one at a time *)

Init ==
  /\ sample \in Samples
  /\ db \in IF sample = "03m" THEN {"absent", "created"} ELSE {"created"}
  /\ store = {}
  /\ session = [s \in Sessions |-> EmptySession]
  /\ response = NoResponse
  /\ inflight = Idle
  /\ AddonUnused

Next ==
  \E s \in Sessions :
    \/ ClassroomAddon03r(s)
    \/ ClassroomAddon03m(s)
    \/ ClassroomAddon05(s)
    \/ TestApiRequest03(s)
    \/ TestApiRequest05(s)
    \/ Authorize(s)
    \/ Callback03(s)
    \/ DiscoveryCallback05(s)
    \/ Revoke(s)
    \/ ClearCredentials(s)

Spec == Init /\ [][Next]_vars

----------------------------------------------------------------------------
(* Samples 02, 04, 06 and 07: sign-in without a store, attachments, grade   *)
(* passback and assignments created outside the iframe.                     *)

\* Number of assignments Classroom accepts before the model stops creating.
MaxCourseWork == 2

ASSIGNMENT_CREATED == "coursework-assignment-created.html"
COURSEWORK_MODIFIED == "coursework-modified.html"

\* One outbound request: the endpoint, whose credentials sign it, the item it
\* addresses and its body.
Call(api, as, itemId, body) ==
  [api |-> api, as |-> as, itemId |-> itemId, body |-> body]

\* Requests that go to Google's OAuth endpoints or to userinfo.
FetchToken == Call("fetch_token", None, None, None)
UserInfoGet(as) == Call("userinfo.get", as, None, None)
\* googleapiclient.discovery.build(..., discoveryServiceUrl=...) downloads the
\* discovery document.
DiscoveryBuild(as) == Call("$discovery", as, None, None)

\* What a request works on, and what it leaves.
St(s) ==
  [session |-> session[s], ids |-> iframe[s], rows |-> store,
   attachments |-> attachments, submissions |-> submissions,
   classroom |-> classroom]

Done(st, page, made) == [st |-> st, page |-> page, calls |-> made]

\* Sample 02 (main.py): the credential lives in the session only.

classroom_addon_02(st) ==
  IF ~st.session.credentials.present THEN Done(st, AUTHORIZATION, <<>>)
  ELSE Done(st, DISCOVERY, <<>>)

\* userinfo is asked only when the session has no username yet.
test_api_request_02(st, is_username, api_ok, name) ==
  IF ~st.session.credentials.present THEN Done(st, AUTHORIZATION, <<>>)
  ELSE
    LET asks == is_username /\ st.session.username = None
        made == IF asks THEN <<UserInfoGet("session")>> ELSE <<>>
        credentials == IF asks
                         THEN Creds(AccessToken,
                                    st.session.credentials.refresh_token)
                         ELSE st.session.credentials
        s1 == [st.session EXCEPT !.username = IF asks THEN name ELSE @,
                                 !.credentials = credentials]
    IN IF asks /\ ~api_ok THEN Done(st, ERROR, made)
       ELSE Done([st EXCEPT !.session = s1], API_RESULT, made)

authorize_02(st) ==
  Done([st EXCEPT !.session.state = "st"], REDIRECT, <<>>)

\* step: "fetch_token" or "userinfo" names the call that raises, "ok" none.
callback_02(st, step, refresh_token, name) ==
  IF st.session.state = None THEN Done(st, ERROR, <<>>)
  ELSE IF step = "fetch_token" THEN Done(st, ERROR, <<FetchToken>>)
  ELSE
    LET s1 == [st.session EXCEPT
                 !.credentials = Creds(AccessToken, refresh_token)]
        made == <<FetchToken, UserInfoGet("session")>>
    IN IF step = "userinfo" THEN Done([st EXCEPT !.session = s1], ERROR, made)
       ELSE Done([st EXCEPT !.session = [s1 EXCEPT !.username = name]],
                 CLOSE_ME, made)

\* del session["credentials"]; del session["username"]; session.clear()
clear_credentials_02(st) ==
  LET cleared == clear_credentials_in_session(st.session)
  IN IF cleared.raised
       THEN Done([st EXCEPT !.session = cleared.session], ERROR, <<>>)
       ELSE Done([st EXCEPT !.session = EmptySession, !.ids = NoIds],
                 SIGNED_OUT, <<>>)

\* Sample 07 (coursework_routes.py), signed in through CredentialHandler.

\* ch.authorize(redirect_destination)
authorize_ch(st) ==
  Done([st EXCEPT !.session.state = "st"], REDIRECT, <<>>)

\* coursework_assignment_callback and attachment_callback: the token exchange,
\* then save_credentials_to_storage with its userinfo request.
handler_callback(st, step, refresh_token, user_info) ==
  LET out == discovery_callback_05(st.session, st.rows, "created", step,
                                   refresh_token, user_info)
      made == IF st.session.state = None THEN <<>>
              ELSE IF step = "fetch_token" THEN <<FetchToken>>
              ELSE <<FetchToken, UserInfoGet("session")>>
  IN Done([st EXCEPT !.session = out.session, !.rows = out.rows],
          out.page, made)

\* The id Classroom gives the next assignment.
CourseWorkId(k) == IF k = 1 THEN "cw1" ELSE IF k = 2 THEN "cw2" ELSE "cw3"
NextCourseWorkId(remote) == CourseWorkId(Cardinality(remote.courseWork) + 1)

LinkMaterial == "example_coursework_assignment/link-material"
ContentUrl == "example_coursework_assignment/add-on-attachment"

\* The assignment body of either branch (materials is None without a link).
CourseWork(id, materials) ==
  [id |-> id,
   title |-> IF materials = None
               THEN "My CourseWork Assignment with Add-on Attachment"
               ELSE "My CourseWork Assignment with Link Material",
   state |-> "DRAFT", materials |-> materials]

\* Variant: the attachment is created whatever the eligibility response says.
create_coursework_assignment_always_attaches(st, eligible, fail) ==
  IF get_credentials(st.session, st.rows, None).result = "None"
    THEN Done(st, AUTHORIZATION, <<>>)
  ELSE
    LET id == NextCourseWorkId(st.classroom)
        c0 == <<DiscoveryBuild("session")>>
        c1 == Append(c0, Call("courses.checkAddOnCreationEligibility",
                              "session", None, None))
        coursework == CourseWork(id, IF eligible THEN None ELSE LinkMaterial)
        c2 == Append(c1, Call("courseWork.create", "session", None,
                              [coursework EXCEPT !.id = None]))
        st2 == [st EXCEPT !.classroom.courseWork = @ \cup {coursework}]
        attachment == [itemId |-> id, uri |-> ContentUrl]
        c3 == Append(c2, Call("addOnAttachments.create", "session", id,
                              attachment))
        st3 == [st2 EXCEPT !.classroom.addOnAttachments = @ \cup {attachment}]
    IN IF fail = "$discovery" THEN Done(st, ERROR, c0)
       ELSE IF fail = "eligibility" THEN Done(st, ERROR, c1)
       ELSE IF fail = "courseWork.create" THEN Done(st, ERROR, c2)
       ELSE IF fail = "addOnAttachments.create" THEN Done(st2, ERROR, c3)
       ELSE Done(st3, ASSIGNMENT_CREATED, c3)

\* Variant: asks Classroom before it looks for the user's credentials.
create_coursework_assignment_unchecked(st, eligible, fail) ==
  LET c0 == <<DiscoveryBuild("session")>>
      c1 == Append(c0, Call("courses.checkAddOnCreationEligibility",
                            "session", None, None))
  IN IF fail = "$discovery" THEN Done(st, ERROR, c0)
     ELSE IF get_credentials(st.session, st.rows, None).result = "None"
       THEN Done(st, AUTHORIZATION, c1)
     ELSE Done(st, ERROR, c1)

\* fail: the outbound request that raises ("none" when all succeed);
\* eligible: isCreateAttachmentEligible of the eligibility response.
create_coursework_assignment(st, eligible, fail) ==
  IF get_credentials(st.session, st.rows, None).result = "None"
    THEN Done(st, AUTHORIZATION, <<>>)
  ELSE
    LET id == NextCourseWorkId(st.classroom)
        c0 == <<DiscoveryBuild("session")>>
        c1 == Append(c0, Call("courses.checkAddOnCreationEligibility",
                              "session", None, None))
        coursework == CourseWork(id, IF eligible THEN None ELSE LinkMaterial)
        c2 == Append(c1, Call("courseWork.create", "session", None,
                              [coursework EXCEPT !.id = None]))
        st2 == [st EXCEPT !.classroom.courseWork = @ \cup {coursework}]
        attachment == [itemId |-> id, uri |-> ContentUrl]
        c3 == Append(c2, Call("addOnAttachments.create", "session", id,
                              attachment))
        st3 == [st2 EXCEPT !.classroom.addOnAttachments = @ \cup {attachment}]
    IN IF fail = "$discovery" THEN Done(st, ERROR, c0)
       ELSE IF fail = "eligibility" THEN Done(st, ERROR, c1)
       ELSE IF fail = "courseWork.create" THEN Done(st, ERROR, c2)
       ELSE IF ~eligible THEN Done(st2, ASSIGNMENT_CREATED, c2)
       ELSE IF fail = "addOnAttachments.create" THEN Done(st2, ERROR, c3)
       ELSE Done(st3, ASSIGNMENT_CREATED, c3)

\* fail: the outbound request that raises ("none" when all succeed).
modify_coursework_assignment(st, fail) ==
  IF get_credentials(st.session, st.rows, None).result = "None"
    THEN Done(st, AUTHORIZATION, <<>>)
  ELSE
    LET c0 == <<DiscoveryBuild("session")>>
        c1 == Append(c0, Call("courseWork.get", "session", "coursework_id",
                              None))
        c2 == Append(c1, Call("courseWork.patch", "session", "coursework_id",
                              "title"))
    IN IF fail = "$discovery" THEN Done(st, ERROR, c0)
       ELSE IF fail = "courseWork.get" THEN Done(st, ERROR, c1)
       ELSE IF fail = "courseWork.patch" THEN Done(st, ERROR, c2)
       ELSE Done(st, COURSEWORK_MODIFIED, c2)

\* CredentialHandler's /clear.
clear_credentials_ch(st) ==
  LET cleared == clear_credentials_in_session(st.session)
  IN Done([st EXCEPT !.session = cleared.session],
          IF cleared.raised THEN ERROR ELSE SIGNED_OUT, <<>>)

\* Samples 04 and 06 (attachment_routes.py).

\* Number of add-on attachments Classroom accepts before the model stops.
MaxAttachments == 2
\* The same for the graded attachments of sample 06.
MaxGraded == 1
MaxPoints == 50

ATTACHMENT_OPTIONS == "attachment-options.html"
CREATE_ATTACHMENT == "create-attachment.html"
SHOW_ACTIVITY == "show-activity-attachment.html"
ACKNOWLEDGE_SUBMISSION == "acknowledge-submission.html"
SHOW_SUBMISSION == "show-student-submission.html"

\* os.listdir(static/images), and the caption image_list_form_builder derives.
Images == <<"eiffel-tower.png", "taj-mahal.png">>
CaptionOf(filename) ==
  IF filename = "eiffel-tower.png" THEN "Eiffel Tower" ELSE "Taj Mahal"

\* The checked images in form order, as filename/caption pairs.
Selections ==
  {<<>>, <<1>>, <<2>>, <<1, 2>>}
Pairs(selection) ==
  [i \in 1..Len(selection) |->
     [key |-> Images[selection[i]], value |-> CaptionOf(Images[selection[i]])]]

AttachmentId(k) ==
  IF k = 1 THEN "a1" ELSE IF k = 2 THEN "a2" ELSE IF k = 3 THEN "a3" ELSE "a4"
AttachmentIds == {AttachmentId(k) : k \in 1..MaxAttachments}
NextAttachmentId(remote) ==
  AttachmentId(Cardinality(remote.addOnAttachments) + 1)

SubmissionIds == {"sub1"}
Courses == {"c1"}

\* Attachment(...) of sample 04 and of sample 06.
Attachment04(id, key, value) ==
  [attachment_id |-> id, image_filename |-> key, image_caption |-> value]
Attachment06(id, key, value, max_points, teacher_id) ==
  [attachment_id |-> id, image_filename |-> key, image_caption |-> value,
   max_points |-> max_points, teacher_id |-> teacher_id]

Submission(submission_id, attachment_id, student_response) ==
  [submission_id |-> submission_id, attachment_id |-> attachment_id,
   student_response |-> student_response]

\* Attachment.query.get(id), Submission.query.get((submission_id, attachment_id))
attachment_get(rows, id) == {a \in rows : a.attachment_id = id}
submission_get(rows, submission_id, attachment_id) ==
  {r \in rows : r.submission_id = submission_id
                  /\ r.attachment_id = attachment_id}

\* Variant: the count is incremented after the title is built.
AttachmentTitle_from_zero(k) ==
  IF k = 1 THEN "Attachment 0" ELSE IF k = 2 THEN "Attachment 1"
  ELSE "Attachment 2"

\* f"Attachment {attachment_count}"
AttachmentTitle(k) ==
  IF k = 1 THEN "Attachment 1" ELSE IF k = 2 THEN "Attachment 2"
  ELSE "Attachment 3"

\* The loop of create_attachments from its k-th pair on. fail_at is the
\* iteration whose create request raises (0: none does).
RECURSIVE create_attachments_from(_, _, _, _, _, _)
create_attachments_from(st, made, pairs, k, fail_at, is06) ==
  IF k > Len(pairs)
    THEN Done(st, CREATE_ATTACHMENT, made)
  ELSE IF st.ids.courseId = None THEN Done(st, ERROR, made)
  ELSE
    LET title == AttachmentTitle(k)
        id == NextAttachmentId(st.classroom)
        request ==
          Call(IF is06 THEN "courseWork.addOnAttachments.create"
                       ELSE "posts.addOnAttachments.create",
               "session", st.ids.courseId, title)
        made1 == Append(made, request)
        st1 == [st EXCEPT !.classroom.addOnAttachments =
                            @ \cup {[id |-> id, title |-> title]}]
        new_attachment ==
          IF is06
            THEN Attachment06(id, pairs[k].key, pairs[k].value, MaxPoints,
                              st.session.login_hint)
            ELSE Attachment04(id, pairs[k].key, pairs[k].value)
        st2 == [st1 EXCEPT !.attachments = @ \cup {new_attachment}]
    IN IF fail_at = k THEN Done(st, ERROR, made1)
       ELSE IF is06 /\ st.session.login_hint = None THEN Done(st1, ERROR, made1)
       ELSE create_attachments_from(st2, made1, pairs, k + 1, fail_at, is06)

\* Variant: all or nothing, the rows of a failed request are taken back.
create_attachments_atomic(st, pairs, build_fails, fail_at, is06) ==
  IF build_fails THEN Done(st, ERROR, <<DiscoveryBuild("session")>>)
  ELSE
    LET out == create_attachments_from(st, <<DiscoveryBuild("session")>>,
                                       pairs, 1, fail_at, is06)
    IN IF out.page = ERROR
         THEN Done([out.st EXCEPT !.attachments = st.attachments], ERROR,
                   out.calls)
         ELSE out

\* get_classroom_service() first; build_fails: the discovery document cannot
\* be fetched.
create_attachments(st, pairs, build_fails, fail_at, is06) ==
  IF build_fails THEN Done(st, ERROR, <<DiscoveryBuild("session")>>)
  ELSE create_attachments_from(st, <<DiscoveryBuild("session")>>, pairs, 1,
                               fail_at, is06)

\* validated: form.validate_on_submit(); selection: the boxes checked.
attachment_options(st, validated, selection, build_fails, fail_at, is06) ==
  IF validated
    THEN IF Len(selection) > 0
           THEN create_attachments(st, Pairs(selection), build_fails, fail_at,
                                   is06)
           ELSE Done(st, CREATE_ATTACHMENT, <<>>)
    ELSE Done(st, ATTACHMENT_OPTIONS, <<>>)

\* Sample 06: the activity and its grade.

\* What a student may type, and str.lower() on the strings of the model.
Responses == {"EIFFEL TOWER", "Taj Mahal", "louvre"}
Lower(str) ==
  IF str \in {"eiffel tower", "EIFFEL TOWER", "Eiffel Tower"}
    THEN "eiffel tower"
  ELSE IF str \in {"taj mahal", "Taj Mahal"} THEN "taj mahal"
  ELSE str

\* Query strings of the attachment iframes: none (a form post or a return to
\* the page), or what Classroom sends: courseId, attachmentId and login_hint
\* to the attachment's view, and the submissionId too to the review of
\* student work.
NoQuery ==
  [courseId |-> None, attachmentId |-> None, submissionId |-> None,
   login_hint |-> None]
ViewQueries ==
  {NoQuery} \cup [courseId : Courses, attachmentId : AttachmentIds,
                  submissionId : {None}, login_hint : Users]
ReviewQueries ==
  {NoQuery} \cup [courseId : Courses, attachmentId : AttachmentIds,
                  submissionId : SubmissionIds, login_hint : Users]

add_iframe_query_parameters_to_session(st, args) ==
  [st EXCEPT
     !.ids.courseId = IF args.courseId # None THEN args.courseId ELSE @,
     !.ids.attachmentId =
        IF args.attachmentId # None THEN args.attachmentId ELSE @,
     !.ids.submissionId =
        IF args.submissionId # None THEN args.submissionId ELSE @,
     !.session.login_hint =
        IF args.login_hint # None THEN args.login_hint ELSE @]

\* ch.check_login_query_parameters(args): None when the user has to authorize.
check_login_query_parameters(st) ==
  IF needs_authorization(st.session) THEN "None" ELSE "credentials"

\* Variant: compares the response with the caption as typed.
grade_of_case_sensitive(student_response, attachment) ==
  IF student_response = attachment.image_caption
    THEN attachment.max_points
    ELSE 0

\* grade = 0; max_points when the response matches the caption, case ignored.
grade_of(student_response, attachment) ==
  IF Lower(student_response) = Lower(attachment.image_caption)
    THEN attachment.max_points
    ELSE 0

PatchGrade(as, ids, grade) ==
  Call("studentSubmissions.patch", as,
       [attachmentId |-> ids.attachmentId, submissionId |-> ids.submissionId],
       [pointsEarned |-> grade])

\* Variant: a response already stored for the pair is left as it is.
submit_response_keeps_first(st, made, attachment, student_response, grade_flag, fail) ==
  IF st.ids.submissionId = None THEN Done(st, ERROR, made)
  ELSE
    LET found == submission_get(st.submissions, st.ids.submissionId,
                                st.ids.attachmentId)
        new_submission == Submission(st.ids.submissionId, st.ids.attachmentId,
                                     student_response)
        st1 == IF found # {} THEN st
               ELSE [st EXCEPT !.submissions = @ \cup {new_submission}]
    IN IF grade_flag THEN Done(st1, ACKNOWLEDGE_SUBMISSION, made)
       ELSE IF attachment = {} THEN Done(st1, ERROR, made)
       ELSE
         LET a == CHOOSE x \in attachment : TRUE
             grade == grade_of(student_response, a)
             c2 == Append(made, PatchGrade(a.teacher_id, st.ids, grade))
         IN IF fail = "patch" THEN Done(st1, ERROR, c2)
            ELSE Done(st1, ACKNOWLEDGE_SUBMISSION, c2)

\* Variant: passes the grade back on submission whatever the flag says.
submit_response_always_grades(st, made, attachment, student_response, grade_flag, fail) ==
  IF st.ids.submissionId = None THEN Done(st, ERROR, made)
  ELSE
    LET found == submission_get(st.submissions, st.ids.submissionId,
                                st.ids.attachmentId)
        new_submission == Submission(st.ids.submissionId, st.ids.attachmentId,
                                     student_response)
        st1 == [st EXCEPT !.submissions = (@ \ found) \cup {new_submission}]
    IN IF attachment = {} THEN Done(st1, ERROR, made)
       ELSE
         LET a == CHOOSE x \in attachment : TRUE
             grade == grade_of(student_response, a)
             c2 == Append(made, PatchGrade(a.teacher_id, st.ids, grade))
         IN IF fail = "patch" THEN Done(st1, ERROR, c2)
            ELSE Done(st1, ACKNOWLEDGE_SUBMISSION, c2)

\* The part of load_activity_attachment that runs on a validated form:
\* store the response, then (flag False) set the grade as the teacher.
submit_response(st, made, attachment, student_response, grade_flag, fail) ==
  IF st.ids.submissionId = None THEN Done(st, ERROR, made)
  ELSE
    LET found == submission_get(st.submissions, st.ids.submissionId,
                                st.ids.attachmentId)
        new_submission == Submission(st.ids.submissionId, st.ids.attachmentId,
                                     student_response)
        st1 == [st EXCEPT !.submissions = (@ \ found) \cup {new_submission}]
    IN IF grade_flag THEN Done(st1, ACKNOWLEDGE_SUBMISSION, made)
       ELSE IF attachment = {} THEN Done(st1, ERROR, made)
       ELSE
         LET a == CHOOSE x \in attachment : TRUE
             grade == grade_of(student_response, a)
             c2 == Append(made, PatchGrade(a.teacher_id, st.ids, grade))
         IN IF fail = "patch" THEN Done(st1, ERROR, c2)
            ELSE Done(st1, ACKNOWLEDGE_SUBMISSION, c2)

\* context: the add-on context, "student" with the submissionId or "teacher";
\* form: validate_on_submit() and the response typed; fail: the outbound
\* request that raises ("none" when all succeed).
load_activity_attachment(st, args, context, form, grade_flag, fail) ==
  LET st0 == add_iframe_query_parameters_to_session(st, args)
      attachment == attachment_get(st0.attachments, st0.ids.attachmentId)
      c0 == <<DiscoveryBuild("session")>>
      c1 == Append(c0, Call("courseWork.getAddOnContext", "session",
                            st0.ids.courseId, None))
      c2 == Append(c1, Call(IF context.role = "teacher"
                              THEN "addOnAttachments.get"
                              ELSE "studentSubmissions.get",
                            "session", st0.ids.attachmentId, None))
      st1 == IF context.role = "teacher" THEN st0
             ELSE [st0 EXCEPT !.ids.submissionId = context.submissionId]
  IN IF check_login_query_parameters(st0) = "None"
       THEN Done(st0, AUTHORIZATION, <<>>)
     ELSE IF st0.ids.attachmentId = None THEN Done(st0, ERROR, <<>>)
     ELSE IF fail = "$discovery" \/ st0.ids.courseId = None
       THEN Done(st0, ERROR, c0)
     ELSE IF fail = "getAddOnContext" THEN Done(st0, ERROR, c1)
     ELSE IF fail = "get" THEN Done(st1, ERROR, c2)
     ELSE IF context.role = "teacher" /\ attachment = {}
       THEN Done(st1, ERROR, c2)
     ELSE IF form.validated
       THEN submit_response(st1, c2, attachment, form.student_response,
                            grade_flag, fail)
     ELSE IF attachment = {} THEN Done(st1, ERROR, c2)
     ELSE Done(st1, SHOW_ACTIVITY, c2)

\* Variant: a review that removes the submission it has shown.
view_submission_consumes(st, args, grade_flag, fail) ==
  LET st0 == add_iframe_query_parameters_to_session(st, args)
      student_submission ==
        submission_get(st0.submissions, st0.ids.submissionId,
                       st0.ids.attachmentId)
  IN IF student_submission = {} THEN Done(st0, ERROR, <<>>)
     ELSE Done([st0 EXCEPT !.submissions = @ \ student_submission],
               SHOW_SUBMISSION, <<>>)

view_submission(st, args, grade_flag, fail) ==
  LET st0 == add_iframe_query_parameters_to_session(st, args)
      student_submission ==
        submission_get(st0.submissions, st0.ids.submissionId,
                       st0.ids.attachmentId)
      attachment == attachment_get(st0.attachments, st0.ids.attachmentId)
      c0 == <<DiscoveryBuild("session")>>
  IN IF st0.ids.submissionId = None \/ st0.ids.attachmentId = None
       THEN Done(st0, ERROR, <<>>)
     \* student_submission.attachment_id is read before the test for None
     ELSE IF student_submission = {} THEN Done(st0, ERROR, <<>>)
     ELSE IF attachment = {} THEN Done(st0, ERROR, <<>>)
     ELSE IF ~grade_flag THEN Done(st0, SHOW_SUBMISSION, <<>>)
     ELSE
       LET a == CHOOSE x \in attachment : TRUE
           r == CHOOSE x \in student_submission : TRUE
           grade == grade_of(r.student_response, a)
           c1 == Append(c0, PatchGrade("session", st0.ids, grade))
       IN IF fail = "$discovery" \/ st0.ids.courseId = None
            THEN Done(st0, ERROR, c0)
          ELSE IF fail = "patch" THEN Done(st0, ERROR, c1)
          ELSE Done(st0, SHOW_SUBMISSION, c1)

\* Sample 04: the discovery route also keeps the iframe ids.
classroom_addon_04(st, q, courseId) ==
  LET out == classroom_addon_05(st.session, st.rows, "created", q.login_hint,
                                q.hd)
  IN Done([st EXCEPT !.session = out.session,
                     !.ids.courseId = IF courseId # None THEN courseId ELSE @],
          out.page, <<>>)

----------------------------------------------------------------------------
(* Requests of the attachment samples *)

\* The response is sent; what the handler committed or created stays. An
\* unhandled exception keeps the session cookie as the handler left it, or
\* (debug server) as it arrived.
HandleAddon(s, route, outcome) ==
  \E out \in {outcome} :
    /\ response' = [route |-> route, page |-> out.page]
    /\ calls' = out.calls
    /\ store' = out.st.rows
    /\ attachments' = out.st.attachments
    /\ submissions' = out.st.submissions
    /\ classroom' = out.st.classroom
    /\ \/ /\ session' = [session EXCEPT ![s] = out.st.session]
          /\ iframe' = [iframe EXCEPT ![s] = out.st.ids]
       \/ /\ out.page = ERROR
          /\ UNCHANGED <<session, iframe>>
    /\ UNCHANGED <<sample, db, inflight, flag>>

\* The OAuth round trips of these samples: one name per account, and a reply
\* with the first refresh token or with none.
AddonReplies ==
  {r \in CallbackReplies :
     /\ r.refresh_token \in {TokenName(1), None}
     /\ r.user_info # NoUserInfo
          => r.user_info.name = (IF r.user_info.id = "u1" THEN "n1" ELSE "n2")}

\* Requests signed with the session's credentials succeed only if it has some.
SessionCanCall(s) ==
  session[s].credentials.present /\ can_call_api(session[s].credentials)

\* The teacher's Classroom service needs the teacher's stored refresh token.
TeacherCanCall(out) ==
  \A i \in 1..Len(out.calls) :
    out.calls[i].as \in Users
      => /\ query_get(out.st.rows, out.calls[i].as) # {}
         /\ Row(out.st.rows, out.calls[i].as).refresh_token \in RefreshTokens

\* The request ended in an exception and its last outbound call was to one of
\* apis: the inputs say that call raises, and the handler reached it.
Raised(out, apis) ==
  /\ out.page = ERROR
  /\ out.calls # <<>>
  /\ out.calls[Len(out.calls)].api \in apis

\* The endpoints a value of "fail" stands for.
FailedApis(fail) ==
  IF fail = "$discovery" THEN {"$discovery"}
  ELSE IF fail = "getAddOnContext" THEN {"courseWork.getAddOnContext"}
  ELSE IF fail = "get" THEN {"addOnAttachments.get", "studentSubmissions.get"}
  ELSE IF fail = "patch" THEN {"studentSubmissions.patch"}
  ELSE {}

ClassroomAddon02(s) ==
  /\ sample = "02"
  /\ HandleAddon(s, "discovery", classroom_addon_02(St(s)))

TestApiRequest02(s) ==
  /\ sample = "02"
  /\ \E is_username \in BOOLEAN, api_ok \in BOOLEAN, name \in Names :
       /\ api_ok => can_call_api(session[s].credentials)
       /\ HandleAddon(s, "test",
                      test_api_request_02(St(s), is_username, api_ok, name))

Authorize02(s) ==
  /\ sample = "02"
  /\ HandleAddon(s, "authorize", authorize_02(St(s)))

Callback02(s) ==
  /\ sample = "02"
  /\ \E r \in AddonReplies :
       HandleAddon(s, "callback",
                   callback_02(St(s), r.step, r.refresh_token,
                               r.user_info.name))

ClearCredentials02(s) ==
  /\ sample = "02"
  /\ HandleAddon(s, "clear", clear_credentials_02(St(s)))

AuthorizeCh(s) ==
  /\ sample \in {"04", "07"}
  /\ HandleAddon(s, "authorize", authorize_ch(St(s)))

HandlerCallback(s) ==
  /\ sample \in {"04", "07"}
  /\ \E r \in AddonReplies :
       HandleAddon(s, "callback",
                   handler_callback(St(s), r.step, r.refresh_token,
                                    r.user_info))

ClearCredentialsCh(s) ==
  /\ sample \in {"04", "07"}
  /\ HandleAddon(s, "clear", clear_credentials_ch(St(s)))

CreateCourseworkAssignment(s) ==
  /\ sample = "07"
  /\ Cardinality(classroom.courseWork) < MaxCourseWork
  /\ \E eligible \in BOOLEAN,
        fail \in {"none", "$discovery", "eligibility", "courseWork.create",
                  "addOnAttachments.create"} :
       /\ fail = "none" => SessionCanCall(s)
       /\ HandleAddon(s, "create-coursework-assignment",
                      create_coursework_assignment(St(s), eligible, fail))

ModifyCourseworkAssignment(s) ==
  /\ sample = "07"
  /\ \E fail \in {"none", "$discovery", "courseWork.get", "courseWork.patch"} :
       /\ fail = "none" => SessionCanCall(s)
       /\ HandleAddon(s, "modify-coursework-assignment",
                      modify_coursework_assignment(St(s), fail))

ClassroomAddon04(s) ==
  /\ sample = "04"
  /\ \E q \in Queries, courseId \in Courses \cup {None} :
       HandleAddon(s, "discovery", classroom_addon_04(St(s), q, courseId))

AttachmentOptions(s, smp, max) ==
  /\ sample = smp
  /\ \E validated \in BOOLEAN, selection \in Selections,
        build_fails \in BOOLEAN, fail_at \in 0..2 :
       /\ Cardinality(classroom.addOnAttachments) + Len(selection) <= max
       /\ (~build_fails /\ fail_at = 0) => SessionCanCall(s)
       /\ HandleAddon(s, "attachment-options",
                      attachment_options(St(s), validated, selection,
                                         build_fails, fail_at, sample = "06"))

LoadActivityAttachment(s) ==
  /\ sample = "06"
  /\ \E args \in ViewQueries,
        context \in {[role |-> "teacher", submissionId |-> None]}
                      \cup {[role |-> "student", submissionId |-> sid] :
                              sid \in SubmissionIds},
        form \in {[validated |-> FALSE, student_response |-> Empty]}
                   \cup {[validated |-> TRUE, student_response |-> r] :
                           r \in Responses},
        fail \in {"none", "$discovery", "getAddOnContext", "get", "patch"} :
       \E out \in {load_activity_attachment(St(s), args, context, form, flag,
                                            fail)} :
          /\ fail = "none" => can_call_api(out.st.session.credentials)
          /\ fail = "none" => TeacherCanCall(out)
          /\ fail # "none" => Raised(out, FailedApis(fail))
          \* a request that ends before the add-on context or the form is
          \* read is the same request whatever these would have been
          /\ Len(out.calls) < 3 => context.role = "teacher"
          /\ (Len(out.calls) < 3 \/ fail = "get") => ~form.validated
          /\ HandleAddon(s, "load-activity-attachment", out)

ViewSubmission(s) ==
  /\ sample = "06"
  /\ \E args \in ReviewQueries, fail \in {"none", "$discovery", "patch"} :
       \E out \in {view_submission(St(s), args, flag, fail)} :
          /\ fail = "none" => SessionCanCall(s)
          /\ fail # "none" => Raised(out, FailedApis(fail))
          /\ HandleAddon(s, "view-submission", out)

AddonStart ==
  /\ db = "created"
  /\ store = {}
  /\ session = [s \in Sessions |-> EmptySession]
  /\ response = NoResponse
  /\ inflight = Idle
  /\ iframe = [s \in Sessions |-> NoIds]
  /\ attachments = {}
  /\ submissions = {}
  /\ classroom = NoClassroom
  /\ calls = <<>>

\* Samples 02, 04 and 07.
InitAddon ==
  /\ sample \in {"02", "04", "07"}
  /\ AddonStart
  /\ flag = FALSE

NextAddon ==
  \E s \in Sessions :
    \/ ClassroomAddon02(s)
    \/ TestApiRequest02(s)
    \/ Authorize02(s)
    \/ Callback02(s)
    \/ ClearCredentials02(s)
    \/ AuthorizeCh(s)
    \/ HandlerCallback(s)
    \/ ClearCredentialsCh(s)
    \/ CreateCourseworkAssignment(s)
    \/ ModifyCourseworkAssignment(s)
    \/ ClassroomAddon04(s)
    \/ AttachmentOptions(s, "04", MaxAttachments)

SpecAddon == InitAddon /\ [][NextAddon]_vars

\* Sample 06, for either value of SET_GRADE_WITH_LOGGED_IN_USER_CREDENTIALS.
\* The sign-in routes are those of SpecAddon; here the browser starts either
\* signed out or signed in, and the store holds the row of teacher "u1".
InitGrade ==
  /\ sample = "06"
  /\ db = "created"
  /\ store = {User(CHOOSE ui \in UserInfos : ui.id = "u1" /\ ui.name = "n1",
                   TokenName(1))}
  /\ session \in {[s \in Sessions |-> EmptySession],
                  [s \in Sessions |->
                     [EmptySession EXCEPT
                        !.credentials = Creds(AccessToken, TokenName(1)),
                        !.username = "n1", !.state = "st"]]}
  /\ response = NoResponse
  /\ inflight = Idle
  /\ iframe = [s \in Sessions |-> NoIds]
  /\ attachments = {}
  /\ submissions = {}
  /\ classroom = NoClassroom
  /\ calls = <<>>
  /\ flag \in BOOLEAN

NextGrade ==
  \E s \in Sessions :
    \/ AttachmentOptions(s, "06", MaxGraded)
    \/ LoadActivityAttachment(s)
    \/ ViewSubmission(s)

SpecGrade == InitGrade /\ [][NextGrade]_vars

----------------------------------------------------------------------------
(* Properties *)

Is03 == sample \in {"03r", "03m"}

\* C1: the credential store never holds two User rows with the same id.
C1_OneRowPerUserId ==
  \A r1, r2 \in store : r1.id = r2.id => r1 = r2

\* Rows for both accounts are stored and the last request was a completed
\* callback.
C1_Witness ==
  /\ Cardinality(store) = 2
  /\ response = [route |-> "callback", page |-> CLOSE_ME]

\* C2: an upsert whose credentials carry no refresh token (None or "") leaves
\* the non-empty refresh token stored for that account as it was, in
\* save_user_credentials (03) and save_credentials_to_storage (05).
C2_NoDowngrade ==
  \A s \in Sessions, rt \in {None, Empty},
     ui \in UserInfos \cup (IF Is03 THEN {NoUserInfo} ELSE {}) :
    LET u == IF ui = NoUserInfo THEN session[s].login_hint ELSE ui.id
        credentials == Creds(AccessToken, rt)
        saved == IF Is03
                   THEN save_user_credentials(store, session[s].login_hint,
                                              credentials, ui)
                   ELSE save_credentials_to_storage(store, credentials, ui)
    IN (query_get(store, u) # {}
          /\ Row(store, u).refresh_token \in RefreshTokens)
       => /\ query_get(saved.rows, u) # {}
          /\ Row(saved.rows, u).refresh_token = Row(store, u).refresh_token

\* The same statement for credentials whose refresh token is None.
C2_NoDowngradeOnNone ==
  \A s \in Sessions, ui \in UserInfos \cup (IF Is03 THEN {NoUserInfo} ELSE {}) :
    LET u == IF ui = NoUserInfo THEN session[s].login_hint ELSE ui.id
        credentials == Creds(AccessToken, None)
        saved == IF Is03
                   THEN save_user_credentials(store, session[s].login_hint,
                                              credentials, ui)
                   ELSE save_credentials_to_storage(store, credentials, ui)
    IN (query_get(store, u) # {}
          /\ Row(store, u).refresh_token \in RefreshTokens)
       => /\ query_get(saved.rows, u) # {}
          /\ Row(saved.rows, u).refresh_token = Row(store, u).refresh_token

\* C3: in sample 03, whatever the store and the session hold, when
\* save_user_credentials(credentials, user_info) with a non-empty refresh token
\* completes, get_credentials_from_storage(user_info.id) returns a row with
\* that refresh token and with the name, e-mail and picture of user_info.
C3_RoundTrip ==
  Is03 =>
    \A s \in Sessions, rt \in RefreshTokens, ui \in UserInfos :
      LET saved == save_user_credentials(store, session[s].login_hint,
                                         Creds(AccessToken, rt), ui)
      IN ~saved.error
           => /\ query_get(saved.rows, ui.id) # {}
              /\ Row(saved.rows, ui.id) = User(ui, rt)

\* A callback completed in a session that had the account's id as login_hint;
\* the row holds the session's new refresh token and name.
C3_Witness ==
  \E s \in Sessions :
    /\ Is03
    /\ response = [route |-> "callback", page |-> CLOSE_ME]
    /\ session[s].login_hint \in Users
    /\ session[s].credentials.refresh_token \in RefreshTokens
    /\ query_get(store, session[s].login_hint) # {}
    /\ Row(store, session[s].login_hint).refresh_token
         = session[s].credentials.refresh_token
    /\ Row(store, session[s].login_hint).display_name = session[s].username

\* C4: in sample 03 (routes.py) a discovery request with no login_hint in the
\* query or the session renders the authorization page; when the callback of
\* an account without a row then completes in that session, the store gains
\* exactly the row of the profile's id with the refresh token of the reply.
C4_NewUser ==
  sample = "03r" =>
    \A s \in Sessions :
      session[s].login_hint = None
        => /\ classroom_addon_03r(session[s], store, db, None).page
                = AUTHORIZATION
           /\ \A rt \in TokenReplies, ui \in UserInfos :
                (session[s].state # None /\ query_get(store, ui.id) = {})
                  => LET out == callback_03(session[s], store, db, "ok", rt, ui)
                     IN /\ out.page = CLOSE_ME
                        /\ out.rows = store \cup {User(ui, rt)}
                        /\ out.rows # store

\* A first callback completed in a session without login_hint: one row, keyed
\* by an account id, holding the session's refresh token.
C4_Witness ==
  \E s \in Sessions :
    /\ sample = "03r"
    /\ response = [route |-> "callback", page |-> CLOSE_ME]
    /\ session[s].login_hint = None
    /\ Cardinality(store) = 1
    /\ \A r \in store :
         /\ r.id \in Users
         /\ r.refresh_token = session[s].credentials.refresh_token

\* C5: in sample 03 a discovery request whose login_hint is the id of a stored
\* row with a non-null refresh token renders the add-on discovery page, never
\* the authorization page, whatever the session held.
C5_ReturningUser ==
  \A s \in Sessions, h \in Hints :
    (query_get(store, h) # {} /\ Row(store, h).refresh_token # None)
      => /\ sample = "03r"
              => classroom_addon_03r(session[s], store, db, h).page = DISCOVERY
         /\ sample = "03m"
              => classroom_addon_03m(session[s], store, db, h, None).page
                   = DISCOVERY

\* The discovery page was rendered from the stored row alone: the session has
\* no access token.
C5_Witness ==
  \E s \in Sessions :
    /\ Is03
    /\ response = [route |-> "discovery", page |-> DISCOVERY]
    /\ session[s].credentials.token = None
    /\ query_get(store, session[s].login_hint) # {}
    /\ Row(store, session[s].login_hint).refresh_token
         = session[s].credentials.refresh_token

\* C6: in sample 05, save_credentials_to_storage applied twice with the same
\* credentials and profile stores the same rows as applied once, and neither
\* application fails.
C6_Idempotent ==
  sample = "05" =>
    \A rt \in TokenReplies, ui \in UserInfos :
      LET once == save_credentials_to_storage(store, Creds(AccessToken, rt), ui)
          twice == save_credentials_to_storage(once.rows,
                                               Creds(AccessToken, rt), ui)
      IN ~once.error /\ ~twice.error /\ twice.rows = once.rows

\* /test saved again the credentials that an earlier request had stored.
C6_Witness ==
  \E s \in Sessions :
    /\ sample = "05"
    /\ response = [route |-> "test", page |-> API_RESULT]
    /\ query_get(store, session[s].login_hint) # {}
    /\ Row(store, session[s].login_hint).refresh_token \in RefreshTokens

\* C7: signed in or not is decided by the refresh token alone. The discovery
\* route of 03 (routes.py), on the session credential it tests, renders the
\* discovery page when the refresh token is non-null and the access token
\* null, and the authorization page when the credential is missing or its
\* refresh token null; get_credentials() of 05, called without a user id,
\* returns None exactly in the latter case.
C7_RefreshTokenDecides ==
  \A s \in Sessions :
    /\ sample = "03r" =>
         \A h \in Hints \cup {None} :
           LET out == classroom_addon_03r(session[s], store, db, h)
               c == out.session.credentials
           IN /\ (c.present /\ c.refresh_token # None /\ c.token = None)
                   => out.page = DISCOVERY
              /\ (~c.present \/ c.refresh_token = None)
                   => out.page = AUTHORIZATION
    /\ sample = "05" =>
         LET c == session[s].credentials
         IN get_credentials(session[s], store, None).result
              = IF ~c.present \/ c.refresh_token = None THEN "None"
                                                        ELSE "credentials"

\* The discovery page rendered for a session with a refresh token and no
\* access token.
C7_Witness ==
  \E s \in Sessions :
    /\ sample = "03r"
    /\ response = [route |-> "discovery", page |-> DISCOVERY]
    /\ session[s].credentials.present
    /\ session[s].credentials.token = None
    /\ session[s].credentials.refresh_token \in RefreshTokens

\* C8: in sample 03, save_user_credentials called when no row is found and
\* credentials or user_info is missing adds no row, raises nothing and leaves
\* the store as it was.
C8_NoInsertWithoutBoth ==
  Is03 =>
    \A s \in Sessions,
       credentials \in {NoCredentials}
                         \cup {Creds(AccessToken, rt) : rt \in TokenReplies},
       ui \in UserInfos \cup {NoUserInfo} :
      (query_get(store, session[s].login_hint) = {}
         /\ (~credentials.present \/ ui = NoUserInfo))
        => save_user_credentials(store, session[s].login_hint, credentials, ui)
             = [rows |-> store, error |-> FALSE]

\* /test saved credentials alone in a session whose login_hint finds no row,
\* with another account's row in the store.
C8_Witness ==
  \E s \in Sessions :
    /\ Is03
    /\ response = [route |-> "test", page |-> API_RESULT]
    /\ query_get(store, session[s].login_hint) = {}
    /\ store # {}

\* C9: whatever the interleaving of two callbacks that upsert the same user
\* id, both finish without a storage error and the stored row holds the values
\* written by the one whose commit ran last.
C9_LastWriteWins ==
  (\A r \in Requests : inflight.req[r].pc = "done")
    => /\ \A r \in Requests : ~inflight.req[r].error
       /\ query_get(store, RaceUser) # {}
       /\ LET last == inflight.req[inflight.order[Len(inflight.order)]]
              row == Row(store, RaceUser)
          IN /\ row.display_name = last.user_info.name
             /\ row.portrait_url = last.user_info.picture
             /\ last.refresh_token # None
                  => row.refresh_token = last.refresh_token

\* C10: a /clear or /revoke request leaves the set of stored rows and every
\* field of each row as it was, whether the revocation succeeded or not.
C10_ClearIsSessionLocal ==
  [][response'.route \in {"clear", "revoke"} => store' = store]_vars

\* /revoke cleared the session of a signed-in user after a successful
\* revocation; the user's row is still stored.
C10_Witness ==
  \E s \in Sessions :
    /\ response = [route |-> "revoke", page |-> AUTHORIZATION]
    /\ ~session[s].credentials.present
    /\ query_get(store, session[s].login_hint) # {}
    /\ Row(store, session[s].login_hint).refresh_token \in RefreshTokens

\* C11: in samples 02 and 07 a request to the discovery route, to
\* /test/<request_type>, to /create-coursework-assignment or to
\* /modify-coursework-assignment in a session that holds no credential is
\* answered with the authorization page, and the request makes no outbound
\* call (OAuth, userinfo or Classroom).
C11_MissingCredential ==
  [][\A s \in Sessions :
       (/\ sample \in {"02", "07"}
        /\ ~session[s].credentials.present
        /\ response'.route \in {"discovery", "test",
                                "create-coursework-assignment",
                                "modify-coursework-assignment"})
         => response'.page = AUTHORIZATION /\ calls' = <<>>]_vars

\* /create-coursework-assignment sent a user to the authorization page who had
\* signed in before (the row is stored) and then cleared the session.
C11_Witness ==
  \E s \in Sessions :
    /\ sample = "07"
    /\ response = [route |-> "create-coursework-assignment",
                   page |-> AUTHORIZATION]
    /\ calls = <<>>
    /\ ~session[s].credentials.present
    /\ store # {}

\* C12: in sample 03 (main.py), while the database file does not exist, the
\* route that reaches the credential store first finds it created and ends
\* without a storage error, whether it is the discovery route, /callback after
\* a successful token exchange, or /test of a signed-in session.
C12_LazyCreation ==
  (sample = "03m" /\ db = "absent") =>
    \A s \in Sessions :
      /\ \A q \in Queries :
           LET out == classroom_addon_03m(session[s], store, db, q.login_hint,
                                          q.hd)
           IN out.page # ERROR /\ out.db = "created"
      /\ session[s].state # None =>
           \A rt \in TokenReplies, ui \in UserInfos :
             LET out == callback_03(session[s], store, db, "ok", rt, ui)
             IN out.page = CLOSE_ME /\ out.db = "created"
      /\ session[s].credentials.present =>
           \A name \in Names :
             LET out == test_api_request_03(session[s], store, db, TRUE, TRUE,
                                            name)
             IN out.page = API_RESULT /\ out.db = "created"

\* C13 as stated: in sample 06 a stored Attachment or Submission row is the
\* same row after every later request (create_attachments,
\* load_activity_attachment, view_submission).
C13_CreateOnce ==
  [][/\ \A a \in attachments : a \in attachments'
     /\ \A r \in submissions : r \in submissions']_vars

\* C13, amended: a stored Attachment row is the same row after every later
\* request. A stored Submission row keeps its key and is never removed; only
\* its student_response changes, and only in a load_activity_attachment
\* request, which stores a response typed into the form.
C13_CreateOnceAmended ==
  [][/\ \A a \in attachments : a \in attachments'
     /\ \A r \in submissions :
          \/ r \in submissions'
          \/ /\ response'.route = "load-activity-attachment"
             /\ \E x \in Responses :
                  submission_get(submissions', r.submission_id, r.attachment_id)
                    = {[r EXCEPT !.student_response = x]}]_vars

\* A teacher's review read the stored rows: view_submission rendered a
\* submission of an attachment that is stored.
C13_Witness ==
  \E s \in Sessions :
    /\ sample = "06"
    /\ response = [route |-> "view-submission", page |-> SHOW_SUBMISSION]
    /\ attachment_get(attachments, iframe[s].attachmentId) # {}
    /\ submission_get(submissions, iframe[s].submissionId,
                      iframe[s].attachmentId) # {}

\* C19: in sample 06, when no Submission row exists for the submissionId and
\* attachmentId the session holds after the request's query is stored,
\* view_submission renders the acknowledge-submission page ("This student has
\* not yet submitted a response.") and issues no pointsEarned patch.
C19_NotYetSubmitted ==
  sample = "06" =>
    \A s \in Sessions, args \in ReviewQueries :
      LET st0 == add_iframe_query_parameters_to_session(St(s), args)
          out == view_submission(St(s), args, flag, "none")
      IN (/\ st0.ids.submissionId # None
          /\ st0.ids.attachmentId # None
          /\ submission_get(submissions, st0.ids.submissionId,
                            st0.ids.attachmentId) = {})
           => /\ out.page = ACKNOWLEDGE_SUBMISSION
              /\ \A i \in 1..Len(out.calls) :
                   out.calls[i].api # "studentSubmissions.patch"

\* C20: in sample 06 a pointsEarned patch is issued at one moment only. With
\* SET_GRADE_WITH_LOGGED_IN_USER_CREDENTIALS False it is issued by
\* load_activity_attachment alone, for a response that the request stored, with
\* the Classroom service of attachment.teacher_id; with the flag True it is
\* issued by view_submission alone, with the session's credentials.
C20_OneGradingMoment ==
  [][\A i \in 1..Len(calls') :
       calls'[i].api = "studentSubmissions.patch"
         => IF flag
              THEN /\ response'.route = "view-submission"
                   /\ calls'[i].as = "session"
              ELSE /\ response'.route = "load-activity-attachment"
                   /\ submission_get(submissions',
                                     calls'[i].itemId.submissionId,
                                     calls'[i].itemId.attachmentId) # {}
                   /\ \E a \in attachment_get(attachments',
                                              calls'[i].itemId.attachmentId) :
                        calls'[i].as = a.teacher_id]_vars

\* A student signed in as "u2" submitted a response and the grade went to
\* Classroom with the service of teacher "u1".
C20_Witness ==
  \E s \in Sessions :
    /\ sample = "06" /\ ~flag
    /\ response = [route |-> "load-activity-attachment",
                   page |-> ACKNOWLEDGE_SUBMISSION]
    /\ session[s].login_hint = "u2"
    /\ calls # <<>>
    /\ calls[Len(calls)].api = "studentSubmissions.patch"
    /\ calls[Len(calls)].as = "u1"

\* The same moment with the flag True: the teacher's review set the grade.
C20_WitnessReview ==
  /\ sample = "06" /\ flag
  /\ response = [route |-> "view-submission", page |-> SHOW_SUBMISSION]
  /\ calls # <<>>
  /\ calls[Len(calls)].api = "studentSubmissions.patch"
  /\ calls[Len(calls)].as = "session"

\* The requests of calls whose endpoint is api.
CallsTo(made, api) == {i \in 1..Len(made) : made[i].api = api}

\* Every endpoint that creates or reads; a compensating request (a delete, a
\* patch that undoes) would be to another one.
ForwardApis ==
  {"$discovery", "courses.checkAddOnCreationEligibility", "courseWork.create",
   "addOnAttachments.create", "posts.addOnAttachments.create"}

\* C14: a failed outbound call is followed by no compensating action. When in
\* create_coursework_assignment (07) the attachment request fails after the
\* assignment was created, the request issues no further call and Classroom
\* keeps the new assignment; when in create_attachments (04) the k-th create
\* request fails, the k-1 Attachment rows committed before it stay stored with
\* all earlier rows, and no further call is issued.
C14_NoCompensation ==
  [][(/\ response'.page = ERROR
      /\ calls' # <<>>
      /\ calls'[Len(calls')].api \in {"addOnAttachments.create",
                                      "posts.addOnAttachments.create"})
       => /\ \A i \in 1..Len(calls') : calls'[i].api \in ForwardApis
          /\ sample = "07" =>
               /\ classroom.courseWork \subseteq classroom'.courseWork
               /\ Cardinality(classroom'.courseWork)
                    = Cardinality(classroom.courseWork) + 1
               /\ classroom'.addOnAttachments = classroom.addOnAttachments
          /\ sample = "04" =>
               /\ attachments \subseteq attachments'
               /\ Cardinality(attachments')
                    = Cardinality(attachments)
                        + Cardinality(CallsTo(calls',
                                              "posts.addOnAttachments.create"))
                        - 1]_vars

\* The second of two create requests failed and the row of the first is
\* stored.
C14_Witness ==
  /\ sample = "04"
  /\ response = [route |-> "attachment-options", page |-> ERROR]
  /\ Cardinality(CallsTo(calls, "posts.addOnAttachments.create")) = 2
  /\ Cardinality(attachments) = 1

\* The attachment request of sample 07 failed and the assignment is still in
\* Classroom, without an attachment.
C14_WitnessCourseWork ==
  /\ sample = "07"
  /\ response = [route |-> "create-coursework-assignment", page |-> ERROR]
  /\ calls # <<>>
  /\ calls[Len(calls)].api = "addOnAttachments.create"
  /\ classroom.courseWork # {}
  /\ classroom.addOnAttachments = {}

\* C15: get_credentials_from_storage(id) for an id that no stored row carries
\* returns None, raises nothing and leaves the store unchanged. Seen through
\* the discovery route of 03 (routes.py), its caller: the request does not
\* fail, the store and the session's credentials and username stay as they
\* were, and the page is chosen from the session alone.
C15_MissReturnsNone ==
  sample = "03r" =>
    \A s \in Sessions, h \in Hints \cup {None} :
      LET login_hint == IF h # None THEN h ELSE session[s].login_hint
          out == classroom_addon_03r(session[s], store, db, h)
      IN (login_hint # None /\ \A r \in store : r.id # login_hint)
           => /\ out.rows = store
              /\ out.page = (IF needs_authorization(session[s])
                               THEN AUTHORIZATION ELSE DISCOVERY)
              /\ out.session.credentials = session[s].credentials
              /\ out.session.username = session[s].username
              /\ out.session.login_hint = login_hint

\* The discovery route looked up an e-mail address as login_hint while the row
\* of that account is stored under its id: nothing was found.
C15_Witness ==
  \E s \in Sessions :
    /\ sample = "03r"
    /\ response = [route |-> "discovery", page |-> AUTHORIZATION]
    /\ session[s].login_hint = "e1"
    /\ ~session[s].credentials.present
    /\ \E r \in store : r.id = "u1" /\ r.email = "e1"

\* C16: in sample 03, when the callback completes the token exchange for an
\* account whose id has a row in the store, it ends normally, the row of that
\* id is the old row rewritten from the new credentials and profile, and no
\* row is added, whatever login_hint the session holds (none, the account's
\* id, its e-mail address, another account's id).
C16_CallbackUpdatesExisting ==
  (Is03 /\ db = "created") =>
    \A s \in Sessions, rt \in TokenReplies, ui \in UserInfos :
      (session[s].state # None /\ query_get(store, ui.id) # {})
        => LET out == callback_03(session[s], store, db, "ok", rt, ui)
           IN /\ out.page = CLOSE_ME
              /\ Cardinality(out.rows) = Cardinality(store)
              /\ query_get(out.rows, ui.id)
                   = {updated_user(Row(store, ui.id), Creds(AccessToken, rt),
                                   ui)}

\* The same for a session whose login_hint is the account's id.
C16_WithIdAsHint ==
  (Is03 /\ db = "created") =>
    \A s \in Sessions, rt \in TokenReplies, ui \in UserInfos :
      (/\ session[s].state # None
       /\ query_get(store, ui.id) # {}
       /\ session[s].login_hint = ui.id)
        => LET out == callback_03(session[s], store, db, "ok", rt, ui)
           IN /\ out.page = CLOSE_ME
              /\ Cardinality(out.rows) = Cardinality(store)
              /\ query_get(out.rows, ui.id)
                   = {updated_user(Row(store, ui.id), Creds(AccessToken, rt),
                                   ui)}

\* The discovery route of the running sample applied to a login_hint query.
Discovery(sess, q_hint) ==
  IF sample = "03r" THEN classroom_addon_03r(sess, store, db, q_hint)
  ELSE IF sample = "03m" THEN classroom_addon_03m(sess, store, db, q_hint, None)
  ELSE classroom_addon_05(sess, store, db, q_hint, None)

\* C17: a discovery request whose login_hint has no row in the store renders
\* the authorization-start page; stated for the sessions that already hold
\* credentials, the case the claim singles out.
C17_UnknownHintAuthorizes ==
  (sample \in Samples /\ (Is03 => db = "created")) =>
    \A s \in Sessions, h \in Hints :
      (query_get(store, h) = {} /\ session[s].credentials.present)
        => Discovery(session[s], h).page = AUTHORIZATION

\* C18: CredentialHandler.get_credentials returns credentials or None and
\* never raises, for every user_id (none, one with a row, one without) and
\* every session (with or without a "credentials" entry).
C18_GetCredentialsNeverRaises ==
  sample = "05" =>
    \A s \in Sessions, user_id \in Hints \cup {None} :
      get_credentials(session[s], store, user_id).result
        \in {"credentials", "None"}

\* The spellings of the model's strings that differ in letter case only.
Spellings == {{"EIFFEL TOWER", "Eiffel Tower"}, {"Taj Mahal"}, {"louvre"}}
SameIgnoringCase(a, b) == \E c \in Spellings : a \in c /\ b \in c

\* The grade requests among the requests of the last handler.
GradeCalls == {i \in 1..Len(calls) : calls[i].api = "studentSubmissions.patch"}

\* C21: every grade passed back, on submission or in view_submission, is for
\* a stored response to a stored attachment and is the attachment's
\* max_points when the response equals the image caption ignoring letter
\* case, and 0 for every other response.
C21_GradeIsZeroOrMax ==
  \A i \in GradeCalls :
    LET id == calls[i].itemId
        attachment == attachment_get(attachments, id.attachmentId)
        student_submission ==
          submission_get(submissions, id.submissionId, id.attachmentId)
    IN /\ attachment # {}
       /\ student_submission # {}
       /\ \A a \in attachment, r \in student_submission :
            /\ calls[i].body.pointsEarned \in {0, a.max_points}
            /\ calls[i].body.pointsEarned = a.max_points
                 <=> SameIgnoringCase(r.student_response, a.image_caption)

\* On submission, a response that differs from the caption in letter case
\* only has earned max_points.
C21_Witness ==
  /\ ~flag
  /\ response = [route |-> "load-activity-attachment",
                 page |-> ACKNOWLEDGE_SUBMISSION]
  /\ \E i \in GradeCalls : calls[i].body.pointsEarned = MaxPoints
  /\ \E r \in submissions, a \in attachments :
       /\ r.attachment_id = a.attachment_id
       /\ r.student_response = "EIFFEL TOWER"
       /\ a.image_caption = "Eiffel Tower"

\* In view_submission, the same response has earned the same grade.
C21_WitnessReview ==
  /\ flag
  /\ response = [route |-> "view-submission", page |-> SHOW_SUBMISSION]
  /\ \E i \in GradeCalls : calls[i].body.pointsEarned = MaxPoints
  /\ \E r \in submissions, a \in attachments :
       /\ r.attachment_id = a.attachment_id
       /\ r.student_response = "EIFFEL TOWER"
       /\ a.image_caption = "Eiffel Tower"

\* A response that does not match has earned 0.
C21_WitnessZero ==
  /\ \E i \in GradeCalls : calls[i].body.pointsEarned = 0
  /\ \E r \in submissions : r.student_response = "louvre"

\* The add-on contexts and the validated forms a request can carry.
Contexts ==
  {[role |-> "teacher", submissionId |-> None]}
    \cup {[role |-> "student", submissionId |-> sid] : sid \in SubmissionIds}
ValidatedForms ==
  {[validated |-> TRUE, student_response |-> r] : r \in Responses}

\* The request stored the form: it ended normally, or its grade request raised.
Stored(out) ==
  out.page = ACKNOWLEDGE_SUBMISSION \/ Raised(out, {"studentSubmissions.patch"})

\* C22: the store holds at most one Submission row per (submission_id,
\* attachment_id), and a validated form submitted to load_activity_attachment
\* leaves for its pair exactly one row, holding the response just submitted,
\* and every other row as it was.
C22_ResubmissionUpdates ==
  sample = "06" =>
    /\ \A r1, r2 \in submissions :
         (r1.submission_id = r2.submission_id
            /\ r1.attachment_id = r2.attachment_id) => r1 = r2
    /\ \A s \in Sessions, args \in ViewQueries, context \in Contexts,
          form \in ValidatedForms, fail \in {"none", "patch"} :
         LET out == load_activity_attachment(St(s), args, context, form, flag,
                                             fail)
             sid == out.st.ids.submissionId
             aid == out.st.ids.attachmentId
         IN Stored(out) =>
              /\ submission_get(out.st.submissions, sid, aid)
                   = {Submission(sid, aid, form.student_response)}
              /\ out.st.submissions \ submission_get(out.st.submissions, sid,
                                                     aid)
                   = submissions \ submission_get(submissions, sid, aid)

\* A response is stored for the pair, and a form with another response
\* submitted for the same pair is stored in its place.
C22_Witness ==
  /\ sample = "06"
  /\ response = [route |-> "load-activity-attachment",
                 page |-> ACKNOWLEDGE_SUBMISSION]
  /\ \E s \in Sessions, context \in Contexts, form \in ValidatedForms :
       LET out == load_activity_attachment(St(s), NoQuery, context, form, flag,
                                           "none")
           old == submission_get(submissions, out.st.ids.submissionId,
                                 out.st.ids.attachmentId)
       IN /\ Stored(out)
          /\ old # {}
          /\ \A r \in old : r.student_response # form.student_response
          /\ Cardinality(out.st.submissions) = Cardinality(submissions)

\* The create requests among the requests of a handler, in order.
IsCreate(c) == c.api = "posts.addOnAttachments.create"
Creates(made) == SelectSeq(made, IsCreate)
Titles == <<"Attachment 1", "Attachment 2">>

\* C23: in sample 04 a validated attachment_options form with n >= 1 checked
\* images that completes has issued exactly n addOnAttachments.create
\* requests, titled "Attachment 1" to "Attachment n" in order, and has added
\* exactly n Attachment rows, the k-th keyed by the id Classroom gave the k-th
\* attachment and holding the k-th checked image's filename and caption; with
\* no image checked it issues no request and adds no row.
C23_OneAttachmentPerImage ==
  sample = "04" =>
    \A s \in Sessions, selection \in Selections :
      Cardinality(classroom.addOnAttachments) + Len(selection) <= MaxAttachments
        => LET n == Len(selection)
               out == attachment_options(St(s), TRUE, selection, FALSE, 0,
                                         FALSE)
               added == out.st.attachments \ attachments
               remote == out.st.classroom.addOnAttachments
                           \ classroom.addOnAttachments
           IN /\ n = 0 => /\ out.calls = <<>>
                          /\ added = {}
                          /\ remote = {}
                          /\ out.page = CREATE_ATTACHMENT
              /\ (n >= 1 /\ out.page = CREATE_ATTACHMENT) =>
                   /\ Len(Creates(out.calls)) = n
                   /\ \A k \in 1..n : Creates(out.calls)[k].body = Titles[k]
                   /\ Cardinality(added) = n
                   /\ Cardinality(remote) = n
                   /\ \A k \in 1..n :
                        \E r \in remote, a \in added :
                          /\ r.title = Titles[k]
                          /\ a.attachment_id = r.id
                          /\ a.image_filename = Images[selection[k]]
                          /\ a.image_caption = CaptionOf(Images[selection[k]])

\* A form with both images checked has completed: two create requests in
\* order and two rows.
C23_Witness ==
  /\ sample = "04"
  /\ response = [route |-> "attachment-options", page |-> CREATE_ATTACHMENT]
  /\ Len(Creates(calls)) = 2
  /\ Creates(calls)[1].body = "Attachment 1"
  /\ Creates(calls)[2].body = "Attachment 2"
  /\ Cardinality(attachments) = 2
  /\ \E a \in attachments : a.image_filename = "taj-mahal.png"

\* A form with no image checked has completed.
C23_WitnessNone ==
  /\ sample = "04"
  /\ response = [route |-> "attachment-options", page |-> CREATE_ATTACHMENT]
  /\ calls = <<>>
  /\ attachments = {}

\* The Classroom requests of a handler, in order, without the download of the
\* discovery document that builds the service.
IsClassroomCall(c) == c.api # "$discovery"
ClassroomCalls(made) == SelectSeq(made, IsClassroomCall)
CreateOrder ==
  <<"courses.checkAddOnCreationEligibility", "courseWork.create",
    "addOnAttachments.create">>
CreateFailures ==
  {"none", "$discovery", "eligibility", "courseWork.create",
   "addOnAttachments.create"}

\* C24: for a signed-in user the Classroom requests of
\* create_coursework_assignment are, in this order, the eligibility check, one
\* courseWork.create in state DRAFT and, for an eligible user only, one
\* addOnAttachments.create whose itemId is the id of the assignment just
\* created; for a user who is not eligible the assignment carries the content
\* URL as a link material and no addOnAttachments.create is issued. A request
\* that ends in an exception has issued a prefix of that order.
C24_CreateOrder ==
  sample = "07" =>
    \A s \in Sessions, eligible \in BOOLEAN, fail \in CreateFailures :
      (/\ get_credentials(session[s], store, None).result # "None"
       /\ Cardinality(classroom.courseWork) < MaxCourseWork)
        => LET out == create_coursework_assignment(St(s), eligible, fail)
               made == ClassroomCalls(out.calls)
               new == out.st.classroom.courseWork \ classroom.courseWork
           IN /\ Len(made) <= (IF eligible THEN 3 ELSE 2)
              /\ \A i \in 1..Len(made) : made[i].api = CreateOrder[i]
              /\ Len(made) >= 2 => made[2].body.state = "DRAFT"
              /\ Cardinality(new) <= 1
              /\ out.page # ERROR =>
                   /\ out.page = ASSIGNMENT_CREATED
                   /\ Len(made) = (IF eligible THEN 3 ELSE 2)
                   /\ Cardinality(new) = 1
                   /\ \A w \in new :
                        /\ w.state = "DRAFT"
                        /\ w.materials = made[2].body.materials
                        /\ eligible => /\ made[3].itemId = w.id
                                       /\ w.materials = None
                        /\ ~eligible => w.materials = LinkMaterial

\* An eligible user's request has completed: the attachment request names the
\* assignment that Classroom now holds.
C24_Witness ==
  /\ sample = "07"
  /\ response = [route |-> "create-coursework-assignment",
                 page |-> ASSIGNMENT_CREATED]
  /\ Len(ClassroomCalls(calls)) = 3
  /\ ClassroomCalls(calls)[3].api = "addOnAttachments.create"
  /\ \E w \in classroom.courseWork : w.id = ClassroomCalls(calls)[3].itemId

\* The request of a user who is not eligible has completed with a link
\* material.
C24_WitnessLink ==
  /\ sample = "07"
  /\ response = [route |-> "create-coursework-assignment",
                 page |-> ASSIGNMENT_CREATED]
  /\ Len(ClassroomCalls(calls)) = 2
  /\ ClassroomCalls(calls)[2].body.materials = LinkMaterial
  /\ classroom.addOnAttachments = {}

====
